---- MODULE Spec2Model ----
(***************************************************************************)
(* Model of the offline evaluation pipeline of offline_eval:               *)
(*   dataset/model.py      EvalRecord.from_dict                            *)
(*   environment/config.py AuroraEnvConfig.get_endpoint_url                *)
(*   environment/client.py AuroraAgentClient                               *)
(*   runner.py             EvalRunner.run_dataset                          *)
(*   evaluation/*.py       EvaluatorFactory, the evaluators, the engine    *)
(*   app.py                run_evaluation_logic                            *)
(*   runs/store.py         DataStore.save_run                              *)
(*                                                                         *)
(* Python values are tagged records: None, Str(s), Num(n), dictionaries.   *)
(* Floats are integers in hundredths (score 1.0 is Num(100)); the pass     *)
(* rate is an integer in tenths of a percent (33.3 is 333).                *)
(***************************************************************************)
EXTENDS Integers, Sequences, FiniteSets, TLC

VARIABLES
    content,             \* dataset_record.content: the parsed JSON value of the dataset
    selected_evaluators, \* the evaluator names run_evaluation_logic is called with
    pc,                  \* position of run_evaluation_logic
    new_run,             \* the in-memory RunRecord of run_evaluation_logic
    db_runs,             \* rows of the runs table, in insertion order
    records,             \* the parsed EvalRecords
    endpoint,            \* runner.env_client.endpoint
    evaluators,          \* engine.evaluators
    results,             \* run_dataset: the results list being built
    i_run,               \* run_dataset: how many records the loop has consumed
    invoked,             \* the agent inputs invoke_agent was called with, in order
    final_results,       \* evaluate_run: the final_results list being built
    i_eval,              \* evaluate_run: how many execution results the loop has consumed
    eval_calls,          \* the (record index, evaluator index) pairs evaluate() was called for
    fault,               \* the exception run_evaluation_logic caught, None if none
    envs,                \* two AuroraEnvConfig descriptors (endpoint resolution)
    clients,             \* the endpoint each AuroraAgentClient resolved, None before __init__
    suites,              \* new_run_dialog: the selected test suites, resolved, in order
    i_suite,             \* new_run_dialog: how many suites the loop has taken up
    run_id               \* the run_id run_evaluation_logic is called with

vars == <<content, selected_evaluators, pc, new_run, db_runs, records, endpoint,
          evaluators, results, i_run, invoked, final_results, i_eval, eval_calls, fault, envs,
          clients, suites, i_suite, run_id>>

pipeVars == <<content, selected_evaluators, pc, new_run, db_runs, records, endpoint,
              evaluators, results, i_run, invoked, final_results, i_eval, eval_calls, fault,
              suites, i_suite, run_id>>

(***************************************************************************)
(* Bounds of the model.                                                    *)
(***************************************************************************)
MaxRecords == 3

MaxSelected == 2
MaxFairRecords == 2

(***************************************************************************)
(* Python values.                                                          *)
(***************************************************************************)
None == [t |-> "None"]

Str(s) == [t |-> "str", s |-> s]

Num(n) == [t |-> "num", n |-> n]

QDict(q) == [t |-> "dict", question |-> q]

ADict(a) == [t |-> "dict", answer |-> a]

KwDict(k) == [t |-> "dict", keywords |-> k]

EmptyDict == [t |-> "dict"]

PyList(items) == [t |-> "list", items |-> items]

IsList(v) == v.t = "list"

IsStr(v) == v.t = "str"

IsDict(v) == v.t = "dict"

\* bool(v): None, "", 0 and 0.0, {} and [] are false.
Truthy(v) ==
    CASE v.t = "None" -> FALSE
      [] v.t = "str" -> v.s # ""
      [] v.t = "num" -> v.n # 0
      [] v.t = "dict" -> v # EmptyDict
      [] OTHER -> TRUE

\* repr(s) of a str without quotes inside.
Repr(v) ==
    CASE v.t = "None" -> "None"
      [] v.t = "str" -> "'" \o v.s \o "'"
      [] OTHER -> "?"

\* str(v).
PyStr(v) ==
    CASE v.t = "None" -> "None"
      [] v.t = "str" -> v.s
      [] v.t = "num" -> ToString(v.n \div 100) \o "." \o ToString((v.n % 100) \div 10)
      [] v.t = "dict" ->
           IF v = EmptyDict THEN "{}"
           ELSE IF "question" \in DOMAIN v THEN "{'question': " \o Repr(Str(v.question)) \o "}"
           ELSE IF "answer" \in DOMAIN v THEN "{'answer': " \o Repr(v.answer) \o "}"
           ELSE "{...}"
      [] OTHER -> "?"

RECURSIVE LStrip(_)
LStrip(s) == IF Len(s) > 0 /\ SubSeq(s, 1, 1) = " " THEN LStrip(SubSeq(s, 2, Len(s))) ELSE s

RECURSIVE RStrip(_)
RStrip(s) ==
    IF Len(s) > 0 /\ SubSeq(s, Len(s), Len(s)) = " " THEN RStrip(SubSeq(s, 1, Len(s) - 1)) ELSE s

\* str.strip() on the blanks of the model's strings.
Strip(s) == LStrip(RStrip(s))

LowerChar(c) ==
    CASE c = "A" -> "a" [] c = "M" -> "m" [] c = "P" -> "p" [] c = "F" -> "f" [] OTHER -> c

RECURSIVE Lower(_)
Lower(s) == IF Len(s) = 0 THEN "" ELSE LowerChar(SubSeq(s, 1, 1)) \o Lower(SubSeq(s, 2, Len(s)))

\* `sub in s` for strings.
Contains(s, sub) ==
    \E i \in 1..(Len(s) - Len(sub) + 1) : SubSeq(s, i, i + Len(sub) - 1) = sub

\* data.get(key) of a dict that has no such key is None.
DictGet(d, key) == IF key \in DOMAIN d THEN d[key] ELSE None

(***************************************************************************)
(* dataset/model.py                                                        *)
(***************************************************************************)
EvalRecord(input, expected, metadata) ==
    [input |-> input, expected |-> expected, metadata |-> metadata]

Ok(v) == [ok |-> TRUE, val |-> v]

Raise(e) == [ok |-> FALSE, exc |-> e]

\* EvalRecord.from_dict: data.get(...) three times; a value that is no dict has no get.
from_dict(data) ==
    IF IsDict(data)
    THEN Ok(EvalRecord(DictGet(data, "input"), DictGet(data, "expected"),
                       DictGet(data, "metadata")))
    ELSE Raise("AttributeError")

\* The keys of the model's dicts, in the order the dicts are written.
KeyOrder == <<"input", "expected", "metadata", "question", "answer", "keywords">>

\* `for r in v`: a list yields its items, a dict its keys, a str its characters;
\* None and numbers are not iterable.
Iterate(v) ==
    CASE v.t = "list" -> Ok(v.items)
      [] v.t = "dict" ->
           LET keys == SelectSeq(KeyOrder, LAMBDA k : k \in DOMAIN v)
           IN  Ok([i \in 1..Len(keys) |-> Str(keys[i])])
      [] v.t = "str" -> Ok([i \in 1..Len(v.s) |-> Str(SubSeq(v.s, i, i))])
      [] OTHER -> Raise("TypeError")

\* [EvalRecord.from_dict(item) for item in data]: the first failure leaves the
\* comprehension.
FromDictEach(data) ==
    LET it == Iterate(data)
    IN  IF ~it.ok THEN it
        ELSE IF \E i \in 1..Len(it.val) : ~from_dict(it.val[i]).ok
        THEN Raise("AttributeError")
        ELSE Ok([i \in 1..Len(it.val) |-> from_dict(it.val[i]).val])

\* load_dataset, from the value json.load returned: anything but a list is rejected.
load_dataset(data) ==
    IF ~IsList(data)
    THEN Raise("ValueError")
    ELSE FromDictEach(data)

(***************************************************************************)
(* environment/config.py, environment/client.py                            *)
(***************************************************************************)
AuroraEnvConfig(env_id, env_version, agent_name, description, api_endpoint) ==
    [env_id |-> env_id, env_version |-> env_version, agent_name |-> agent_name,
     description |-> description, api_endpoint |-> api_endpoint]

Gateway == "aurora-gateway.microsoft.com"

\* A resolution that lets the description leak into the URL.
get_endpoint_url_desc(cfg) ==
    IF Truthy(cfg.api_endpoint)
    THEN cfg.api_endpoint
    ELSE Str("https://" \o Gateway \o "/envs/" \o PyStr(cfg.env_id) \o "/v"
             \o PyStr(cfg.env_version) \o "/agents/" \o PyStr(cfg.agent_name)
             \o (IF Truthy(cfg.description) THEN "?d=" \o PyStr(cfg.description) ELSE ""))

\* A resolution that always derives the URL.
get_endpoint_url_derived(cfg) ==
    Str("https://" \o Gateway \o "/envs/" \o PyStr(cfg.env_id) \o "/v"
        \o PyStr(cfg.env_version) \o "/agents/" \o PyStr(cfg.agent_name))

\* AuroraEnvConfig.get_endpoint_url: `if self.api_endpoint:` is a truth test, so
\* None and "" both fall through to the derived URL.
get_endpoint_url(cfg) ==
    IF Truthy(cfg.api_endpoint)
    THEN cfg.api_endpoint
    ELSE Str("https://" \o Gateway \o "/envs/" \o PyStr(cfg.env_id) \o "/v"
             \o PyStr(cfg.env_version) \o "/agents/" \o PyStr(cfg.agent_name))

\* AuroraAgentClient.__init__: self.endpoint = config.get_endpoint_url()
ClientEndpoint(cfg) == get_endpoint_url(cfg)

\* AuroraAgentClient._mock_response
mock_response(cfg, input_data) ==
    IF IsDict(input_data) /\ "question" \in DOMAIN input_data
    THEN Str("Mock Answer from " \o PyStr(cfg.agent_name) \o " for: " \o input_data.question)
    ELSE Str("Processed: " \o PyStr(input_data))

\* The messages of the exceptions the agent transport raises; str(e) of an
\* exception built without arguments is "".
AgentErrors == {"", "AgentTimeout"}

\* AuroraAgentClient.invoke_agent: the mock answer, or what the HTTP call the mock
\* stands for can do: any JSON body (a string, null) or an exception.
invoke_agent(cfg, input_data) ==
    {Ok(mock_response(cfg, input_data)), Ok(Str("4")), Ok(None)}
        \cup {Raise(m) : m \in AgentErrors}

(***************************************************************************)
(* evaluation/config.py, evaluation/evaluators.py                          *)
(***************************************************************************)
EvaluatorConfig(name, category, type, target, pass_threshold, parameters) ==
    [name |-> name, category |-> category, type |-> type, target |-> target,
     pass_threshold |-> pass_threshold, parameters |-> parameters]

\* The draws of random.uniform / random.randint, as the low or the high end.
Draws == {"lo", "hi"}

Between(d, lo, hi) == IF d = "lo" THEN lo ELSE hi

\* `self.config.pass_threshold or 0`
ThresholdOr0(config) ==
    IF Truthy(config.pass_threshold) THEN config.pass_threshold.n ELSE 0

\* AzureBuiltInEvaluator.evaluate: mock_score = round(random.uniform(2.5, 5.0), 1)
AzureEvaluate(config, d) ==
    LET mock_score == Between(d, 250, 500)
    IN  Ok([metric |-> Str(config.target),
            score |-> Num(mock_score),
            passed |-> mock_score >= ThresholdOr0(config),
            reasoning |-> "Mock Azure AI reasoning for " \o config.target \o "."])

\* k.lower() of every keyword: a keyword that is no str has no lower().
KeywordsAreStr(keywords) == \A i \in 1..Len(keywords) : IsStr(keywords[i])

\* [k for k in keywords if k.lower() in str(actual_output).lower()]
FoundKeywords(keywords, actual_output) ==
    SelectSeq(keywords, LAMBDA k : Contains(Lower(PyStr(actual_output)), Lower(k.s)))

\* json.loads(s) succeeds: the JSON documents among the model's strings.
IsJson(s) == s \in {"4", " 4", "4 ", "null", "{}"}

\* A return value whose passed asks for a score above the threshold.
LocalMetric_strict(config, score, reasoning) ==
    Ok([metric |-> Str(config.name),
        score |-> Num(score),
        passed |-> score > ThresholdOr0(config),
        reasoning |-> reasoning])

\* The return value of LocalFunctionEvaluator.evaluate.
LocalMetric(config, score, reasoning) ==
    Ok([metric |-> Str(config.name),
        score |-> Num(score),
        passed |-> score >= ThresholdOr0(config),
        reasoning |-> reasoning])

\* expected_output.get("answer", "")
AnswerOf(expected_output) ==
    IF "answer" \in DOMAIN expected_output THEN expected_output.answer ELSE Str("")

\* An exact match that compares the strings as they are.
is_match_unstripped(actual_output, expected_output) ==
    IF IsDict(expected_output)
    THEN PyStr(actual_output) = PyStr(AnswerOf(expected_output))
    ELSE PyStr(actual_output) = PyStr(expected_output)

\* is_match of exact_match: against a dict, both sides through str() and strip();
\* against anything else, through str() only.
is_match(actual_output, expected_output) ==
    IF IsDict(expected_output)
    THEN Strip(PyStr(actual_output)) = Strip(PyStr(AnswerOf(expected_output)))
    ELSE PyStr(actual_output) = PyStr(expected_output)

\* LocalFunctionEvaluator.evaluate; the reasoning of keyword_check leaves out the list
\* of keywords found.
LocalEvaluate(config, actual_output, expected_output, d) ==
    LET func_name == config.target
    IN  CASE func_name = "exact_match" ->
               LET matched == is_match(actual_output, expected_output)
               IN  LocalMetric(config, IF matched THEN 100 ELSE 0,
                               IF matched THEN "Strings match exactly."
                               ELSE "Strings do not match.")
          [] func_name = "f1_score" ->
               LocalMetric(config, Between(d, 50, 100), "Calculated token overlap.")
          [] func_name = "keyword_check" ->
               IF ~IsDict(config.parameters)
               THEN Raise("AttributeError")
               ELSE LET keywords == IF "keywords" \in DOMAIN config.parameters
                                    THEN config.parameters.keywords ELSE <<>>
                    IN  IF ~KeywordsAreStr(keywords)
                        THEN Raise("AttributeError")
                        ELSE LET found == FoundKeywords(keywords, actual_output)
                             IN  LocalMetric(config, IF found # <<>> THEN 100 ELSE 0,
                                             IF found # <<>> THEN "Found keywords"
                                             ELSE "No required keywords found.")
          [] func_name = "json_validity" ->
               IF IsStr(actual_output) /\ ~IsJson(actual_output.s)
               THEN LocalMetric(config, 0, "Invalid JSON format.")
               ELSE LocalMetric(config, 100, "Valid JSON.")
          [] OTHER ->
               LocalMetric(config, 0, "Unknown local function: " \o func_name)

\* A placeholder that treats the pending score as zero and applies the threshold.
HumanEvaluate_threshold(config) ==
    Ok([metric |-> Str(config.name),
        score |-> None,
        passed |-> 0 >= ThresholdOr0(config),
        reasoning |-> "Queued for human expert review."])

\* HumanPlaceholderEvaluator.evaluate
HumanEvaluate(config) ==
    Ok([metric |-> Str(config.name),
        score |-> None,
        passed |-> FALSE,
        reasoning |-> "Queued for human expert review."])

\* CustomEvaluator.evaluate; the sub-scores of "details" follow the same draw.
CustomEvaluate(config, d) ==
    LET target == config.target
    IN  CASE target = "ProductRecommendation" ->
               Ok([metric |-> Str("ProductRecommendation"),
                   score |-> Num(Between(d, 70, 100)),
                   passed |-> TRUE,
                   reasoning |-> "Mock Product Recommendation logic.",
                   details |-> [precision |-> Num(Between(d, 80, 100)),
                                recall |-> Num(Between(d, 70, 90)),
                                diversity |-> Num(Between(d, 50, 100))]])
          [] target = "ApprovalEvaluator" ->
               Ok([metric |-> Str("ApprovalEvaluator"),
                   score |-> Num(Between(d, 80, 100)),
                   passed |-> TRUE,
                   reasoning |-> "Mock Approval logic.",
                   details |-> [accuracy |-> Num(Between(d, 90, 100)),
                                latency_ms |-> Num(Between(d, 50, 200))]])
          [] OTHER ->
               Ok([metric |-> Str(target),
                   score |-> Num(0),
                   passed |-> FALSE,
                   reasoning |-> "Unknown custom evaluator: " \o target])

KnownTypes == {"azure-builtin", "custom", "custom-service", "local-function",
               "human-placeholder"}

\* A factory that hands an unknown type to the custom evaluator instead of raising.
create_fallback(config) ==
    Ok([cls |-> CASE config.type = "azure-builtin" -> "AzureBuiltInEvaluator"
                  [] config.type = "local-function" -> "LocalFunctionEvaluator"
                  [] config.type = "human-placeholder" -> "HumanPlaceholderEvaluator"
                  [] OTHER -> "CustomEvaluator",
        config |-> config])

\* EvaluatorFactory.create
create(config) ==
    CASE config.type = "azure-builtin" -> Ok([cls |-> "AzureBuiltInEvaluator", config |-> config])
      [] config.type = "custom" -> Ok([cls |-> "CustomEvaluator", config |-> config])
      [] config.type = "custom-service" -> Ok([cls |-> "CustomEvaluator", config |-> config])
      [] config.type = "local-function" -> Ok([cls |-> "LocalFunctionEvaluator", config |-> config])
      [] config.type = "human-placeholder" ->
           Ok([cls |-> "HumanPlaceholderEvaluator", config |-> config])
      [] OTHER -> Raise("ValueError")

\* evaluator.evaluate(input_val, actual_val, expected_val), by the evaluator's class.
evaluate(ev, input_data, actual_output, expected_output, d) ==
    CASE ev.cls = "AzureBuiltInEvaluator" -> AzureEvaluate(ev.config, d)
      [] ev.cls = "LocalFunctionEvaluator" ->
           LocalEvaluate(ev.config, actual_output, expected_output, d)
      [] ev.cls = "HumanPlaceholderEvaluator" -> HumanEvaluate(ev.config)
      [] OTHER -> CustomEvaluate(ev.config, d)

(***************************************************************************)
(* runner.py                                                               *)
(***************************************************************************)
ExecutionResult(record, actual_output, error) ==
    [record |-> record, actual_output |-> actual_output, error |-> error]

\* A loop body that drops the record when the agent raises.
run_dataset_step_drop(res, record, outcome) ==
    IF outcome.ok
    THEN Append(res, ExecutionResult(record, outcome.val, None))
    ELSE res

\* One iteration of the loop of EvalRunner.run_dataset, given what invoke_agent did:
\* the try branch appends the output, the except branch appends str(e).
run_dataset_step(res, record, outcome) ==
    IF outcome.ok
    THEN Append(res, ExecutionResult(record, outcome.val, None))
    ELSE Append(res, ExecutionResult(record, None, Str(outcome.exc)))

(***************************************************************************)
(* evaluation/engine.py                                                    *)
(***************************************************************************)
\* An EvalResult built on a copy of the execution result whose record gets an empty
\* metadata dict.
EvalResult_normalised(execution_result, metrics, passed) ==
    [execution_result |->
         [execution_result EXCEPT
             !.record = EvalRecord(@.input, @.expected, EmptyDict)],
     metrics |-> metrics, passed |-> passed]

EvalResult(execution_result, metrics, passed) ==
    [execution_result |-> execution_result, metrics |-> metrics, passed |-> passed]

\* A dict is the sequence of its items in insertion order; d[k] = v keeps the
\* place of a key that is already there.
DictKeys(d) == {d[i].k : i \in 1..Len(d)}

DictPut(d, k, v) ==
    IF k \in DictKeys(d)
    THEN [i \in 1..Len(d) |-> IF d[i].k = k THEN [k |-> k, v |-> v] ELSE d[i]]
    ELSE Append(d, [k |-> k, v |-> v])

\* EvaluationEngine.__init__: the list comprehension over EvaluatorFactory.create
\* raises at the first config create() rejects.
EngineInit(configs) ==
    IF \E i \in 1..Len(configs) : ~create(configs[i]).ok
    THEN Raise("ValueError")
    ELSE Ok([i \in 1..Len(configs) |-> create(configs[i]).val])

\* A skip test on `error is not None` instead of the truth value.
skips_is_not_none(exec_res) == exec_res.error # None

\* `if exec_res.error:` of evaluate_run: the truth value of the error string.
skips(exec_res) == Truthy(exec_res.error)

\* An aggregate that looks at the first evaluator only.
fold_passed_first(all_passed, result, k) ==
    IF k = 1 /\ ~(IF "passed" \in DOMAIN result THEN result.passed ELSE TRUE)
    THEN FALSE ELSE all_passed

\* `if not result.get("passed", True): all_passed = False`
fold_passed(all_passed, result, k) ==
    IF ~(IF "passed" \in DOMAIN result THEN result.passed ELSE TRUE)
    THEN FALSE ELSE all_passed

\* The inner loop of evaluate_run from evaluator k on: no try around evaluate(),
\* so an exception leaves the loop (and evaluate_run) at once.
RECURSIVE EvalLoop(_, _, _, _, _, _)
EvalLoop(evs, k, exec_res, ds, record_metrics, all_passed) ==
    IF k > Len(evs)
    THEN [ok |-> TRUE, metrics |-> record_metrics, passed |-> all_passed, calls |-> k - 1]
    ELSE LET result == evaluate(evs[k], exec_res.record.input, exec_res.actual_output,
                                exec_res.record.expected, ds[k])
         IN  IF ~result.ok
             THEN [ok |-> FALSE, exc |-> result.exc, calls |-> k]
             ELSE EvalLoop(evs, k + 1, exec_res, ds,
                           DictPut(record_metrics, evs[k].config.name, result.val),
                           fold_passed(all_passed, result.val, k))

(***************************************************************************)
(* runs/store.py                                                           *)
(***************************************************************************)
\* The fields of a RunRecord the run's logic writes; name, environment, agent, dataset,
\* created_at and duration are labels and clock readings no operation reads back.
RunRecord(id, status, evaluator_ids) ==
    [id |-> id, status |-> status, pass_rate |-> 0, total_records |-> 0,
     results |-> <<>>, evaluator_ids |-> evaluator_ids]

\* An UPDATE without its WHERE clause: every row gets the saved run's values.
save_run_everywhere(db, run) ==
    IF \E i \in 1..Len(db) : db[i].id = run.id
    THEN [i \in 1..Len(db) |-> run]
    ELSE Append(db, run)

\* A save that inserts a row whether or not the id is already stored.
save_run_insert(db, run) == Append(db, run)

\* DataStore.save_run: UPDATE the row with this id if there is one, else INSERT.
save_run(db, run) ==
    IF \E i \in 1..Len(db) : db[i].id = run.id
    THEN [i \in 1..Len(db) |-> IF db[i].id = run.id THEN run ELSE db[i]]
    ELSE Append(db, run)

EvaluatorRecord(id, name, category, type, target, pass_threshold, parameters) ==
    [id |-> id, name |-> name, category |-> category, type |-> type, target |-> target,
     pass_threshold |-> pass_threshold, parameters |-> parameters]

\* store.list_evaluators(): the evaluators table. Names are not unique: the
\* table's key is the id.
StoreEvaluators ==
    << EvaluatorRecord("e1", "Exact Match", "Automated - Statistical", "local-function",
                       "exact_match", Num(100), EmptyDict),
       EvaluatorRecord("e2", "Exact Match", "Automated - Rule-based", "local-function",
                       "exact_match", Num(0), EmptyDict),
       EvaluatorRecord("e3", "Keyword", "Automated - Rule-based", "local-function",
                       "keyword_check", Num(50), KwDict(<<Num(5)>>)),
       EvaluatorRecord("e4", "Remote Scorer", "Automated - Semantic", "custom-service",
                       "http://localhost:8000/eval", Num(50), EmptyDict),
       EvaluatorRecord("e5", "Legacy", "Automated - Semantic", "semantic-service",
                       "Similarity", Num(50), EmptyDict),
       EvaluatorRecord("e6", "Groundedness", "LLM-as-a-judge", "azure-builtin",
                       "Groundedness", Num(300), EmptyDict) >>

StoreNames == {StoreEvaluators[i].name : i \in 1..Len(StoreEvaluators)}

\* The environments table's seeded row.
DefaultEnv ==
    [id |-> "default-env", name |-> "Aurora Test Env 001", env_id |-> Str("aurora-test-001"),
     env_version |-> Str("10.0.38"), agent_name |-> Str("finance-advisor-bot"),
     api_endpoint |-> Str("http://mock")]

(***************************************************************************)
(* app.py: run_evaluation_logic                                            *)
(***************************************************************************)
RunId == "run-1"

\* The dataset's raw items: item i asks question i; the expected value is an
\* object with an answer, a bare string for item 2, an answer with a blank for item 3.
RawRecord(i) ==
    [t |-> "dict",
     input |-> QDict("q" \o ToString(i)),
     expected |-> IF i = 2 THEN Str("4") ELSE IF i = 3 THEN ADict(Str("4 ")) ELSE ADict(Str("4"))]

\* What the dataset dialog stores is whatever json.loads returned: lists of records,
\* a list with an item that is no object, and values that are no list at all.
Datasets ==
    {PyList([i \in 1..n |-> RawRecord(i)]) : n \in 0..MaxRecords}
        \cup {PyList(<<RawRecord(1), Str("oops")>>)}
        \cup {EmptyDict, RawRecord(1), None}

\* The number of items of a list content, 0 for any other value.
ContentSize(v) == IF IsList(v) THEN Len(v.items) ELSE 0

Selections == {S \in SUBSET StoreNames : Cardinality(S) <= MaxSelected}

\* selected_ids = [e.id for e in all_evals if e.name in selected_evaluators]
SelectedIds(all_evals, selected) ==
    LET picked == SelectSeq(all_evals, LAMBDA e : e.name \in selected)
    IN  [i \in 1..Len(picked) |-> picked[i].id]

\* active_eval_configs: one EvaluatorConfig per stored evaluator whose name is selected,
\* in the order of the table.
ActiveEvalConfigs(all_evals, selected) ==
    LET picked == SelectSeq(all_evals, LAMBDA e : e.name \in selected)
    IN  [i \in 1..Len(picked) |->
            EvaluatorConfig(picked[i].name, picked[i].category, picked[i].type,
                            picked[i].target, picked[i].pass_threshold, picked[i].parameters)]

\* env_config = AuroraEnvConfig(env_id=..., env_version=..., agent_name=..., api_endpoint=...)
EnvConfigOf(env_record) ==
    AuroraEnvConfig(env_record.env_id, env_record.env_version, env_record.agent_name,
                    None, env_record.api_endpoint)

\* passed = sum(1 for r in eval_results if r.passed)
RECURSIVE CountPassed(_)
CountPassed(rs) ==
    IF rs = <<>> THEN 0 ELSE (IF Head(rs).passed THEN 1 ELSE 0) + CountPassed(Tail(rs))

\* round(x, 1) of x = n/d >= 0, in tenths: to the nearest tenth, a tie to the even one.
RoundTenths(n, d) ==
    LET q == (10 * n) \div d
        r == (10 * n) % d
    IN  IF 2 * r < d THEN q
        ELSE IF 2 * r > d THEN q + 1
        ELSE IF q % 2 = 0 THEN q ELSE q + 1

\* A pass rate cut to one decimal instead of rounded.
pass_rate_truncated(passed, total) ==
    IF total > 0 THEN (1000 * passed) \div total ELSE 0

\* pass_rate = (passed / total * 100) if total > 0 else 0; round(pass_rate, 1)
pass_rate_of(passed, total) ==
    IF total > 0 THEN RoundTenths(100 * passed, total) ELSE 0

\* v.get("score") of a metric
ScoreOf(metric) == IF "score" \in DOMAIN metric THEN metric.score ELSE None

\* A row whose scores are written as `score or None`: a zero score is lost.
SerializeRow_truthy(res) ==
    [input |-> PyStr(res.execution_result.record.input),
     expected |-> PyStr(res.execution_result.record.expected),
     actual |-> PyStr(res.execution_result.actual_output),
     passed |-> res.passed,
     metrics |-> [i \in 1..Len(res.metrics) |->
                     [k |-> res.metrics[i].k,
                      v |-> IF Truthy(ScoreOf(res.metrics[i].v))
                            THEN ScoreOf(res.metrics[i].v) ELSE None]]]

\* One row of serialized_results.
SerializeRow(res) ==
    [input |-> PyStr(res.execution_result.record.input),
     expected |-> PyStr(res.execution_result.record.expected),
     actual |-> PyStr(res.execution_result.actual_output),
     passed |-> res.passed,
     metrics |-> [i \in 1..Len(res.metrics) |->
                     [k |-> res.metrics[i].k, v |-> ScoreOf(res.metrics[i].v)]]]

\* An except branch that sets the status and does not save it.
Failed_unsaved(exc) ==
    /\ new_run' = [new_run EXCEPT !.status = "Failed"]
    /\ db_runs' = db_runs
    /\ fault' = Str(exc)
    /\ pc' = "failed"

\* The except branch: status Failed, saved.
Failed(exc) ==
    /\ new_run' = [new_run EXCEPT !.status = "Failed"]
    /\ db_runs' = save_run(db_runs, new_run')
    /\ fault' = Str(exc)
    /\ pc' = "failed"

\* Lines 69-84: the RunRecord with status Running is built and saved.
StartRun ==
    /\ pc = "start"
    /\ new_run' = RunRecord(run_id, "Running", SelectedIds(StoreEvaluators, selected_evaluators))
    /\ db_runs' = save_run(db_runs, new_run')
    /\ pc' = "load"
    /\ UNCHANGED <<content, selected_evaluators, records, endpoint, evaluators, results,
                   i_run, invoked, final_results, i_eval, eval_calls, fault, envs, clients,
                   suites, i_suite, run_id>>

\* Line 91: records = [EvalRecord.from_dict(r) for r in dataset_record.content]
LoadData ==
    /\ pc = "load"
    /\ IF ~FromDictEach(content).ok
       THEN /\ Failed(FromDictEach(content).exc)
            /\ UNCHANGED records
       ELSE /\ records' = FromDictEach(content).val
            /\ pc' = "setup"
            /\ UNCHANGED <<new_run, db_runs, fault>>
    /\ UNCHANGED <<content, selected_evaluators, endpoint, evaluators, results, i_run,
                   invoked, final_results, i_eval, eval_calls, envs, clients,
                   suites, i_suite, run_id>>

\* Lines 93-119: the env config, the runner (whose client resolves its endpoint), the
\* active evaluator configs and the engine (whose constructor calls the factory).
Setup ==
    /\ pc = "setup"
    /\ endpoint' = ClientEndpoint(EnvConfigOf(DefaultEnv))
    /\ LET engine == EngineInit(ActiveEvalConfigs(StoreEvaluators, selected_evaluators))
       IN  IF engine.ok
           THEN /\ evaluators' = engine.val
                /\ pc' = "run"
                /\ UNCHANGED <<new_run, db_runs, fault>>
           ELSE /\ Failed(engine.exc)
                /\ UNCHANGED evaluators
    /\ UNCHANGED <<content, selected_evaluators, records, results, i_run, invoked,
                   final_results, i_eval, eval_calls, envs, clients,
                   suites, i_suite, run_id>>

\* A loop that records the failure of an invocation and then leaves.
InvokeAgent_break ==
    /\ pc = "run"
    /\ i_run < Len(records)
    /\ LET record == records[i_run + 1]
       IN  \E outcome \in invoke_agent(EnvConfigOf(DefaultEnv), record.input) :
              /\ invoked' = Append(invoked, record.input)
              /\ results' = run_dataset_step(results, record, outcome)
              /\ i_run' = IF outcome.ok THEN i_run + 1 ELSE Len(records)
    /\ UNCHANGED <<content, selected_evaluators, pc, new_run, db_runs, records, endpoint,
                   evaluators, final_results, i_eval, eval_calls, fault, envs, clients,
                   suites, i_suite, run_id>>

\* Line 123, one iteration of run_dataset's loop: the agent is invoked for the next record.
InvokeAgent ==
    /\ pc = "run"
    /\ i_run < Len(records)
    /\ LET record == records[i_run + 1]
       IN  \E outcome \in invoke_agent(EnvConfigOf(DefaultEnv), record.input) :
              /\ invoked' = Append(invoked, record.input)
              /\ results' = run_dataset_step(results, record, outcome)
              /\ i_run' = i_run + 1
    /\ UNCHANGED <<content, selected_evaluators, pc, new_run, db_runs, records, endpoint,
                   evaluators, final_results, i_eval, eval_calls, fault, envs, clients,
                   suites, i_suite, run_id>>

\* A run_dataset that returns as soon as one record has been processed.
RunDatasetReturn_early ==
    /\ pc = "run"
    /\ i_run >= 1 \/ i_run >= Len(records)
    /\ pc' = "evaluate"
    /\ UNCHANGED <<content, selected_evaluators, new_run, db_runs, records, endpoint,
                   evaluators, results, i_run, invoked, final_results, i_eval, eval_calls,
                   fault, envs, clients,
                   suites, i_suite, run_id>>

\* Line 123: run_dataset returns its results list.
RunDatasetReturn ==
    /\ pc = "run"
    /\ i_run >= Len(records)
    /\ pc' = "evaluate"
    /\ UNCHANGED <<content, selected_evaluators, new_run, db_runs, records, endpoint,
                   evaluators, results, i_run, invoked, final_results, i_eval, eval_calls,
                   fault, envs, clients,
                   suites, i_suite, run_id>>

\* Line 124, one iteration of evaluate_run's outer loop: the next execution result is
\* skipped, or every evaluator is run on it; an exception of evaluate() reaches the
\* except branch of run_evaluation_logic.
EvaluateRecord ==
    /\ pc = "evaluate"
    /\ i_eval < Len(results)
    /\ LET exec_res == results[i_eval + 1]
       IN  IF skips(exec_res)
           THEN /\ i_eval' = i_eval + 1
                /\ UNCHANGED <<pc, new_run, db_runs, final_results, eval_calls, fault>>
           ELSE \E ds \in [1..Len(evaluators) -> Draws] :
                   LET out == EvalLoop(evaluators, 1, exec_res, ds, <<>>, TRUE)
                   IN  /\ eval_calls' = eval_calls \o [k \in 1..out.calls |-> <<i_eval + 1, k>>]
                       /\ IF out.ok
                          THEN /\ final_results' =
                                      Append(final_results,
                                             EvalResult(exec_res, out.metrics, out.passed))
                               /\ i_eval' = i_eval + 1
                               /\ UNCHANGED <<pc, new_run, db_runs, fault>>
                          ELSE /\ Failed(out.exc)
                               /\ UNCHANGED <<final_results, i_eval>>
    /\ UNCHANGED <<content, selected_evaluators, records, endpoint, evaluators, results,
                   i_run, invoked, envs, clients,
                   suites, i_suite, run_id>>

\* Lines 124-151: evaluate_run returns; the statistics, the rows, status Succeeded, saved.
Finish ==
    /\ pc = "evaluate"
    /\ i_eval >= Len(results)
    /\ LET eval_results == final_results
           total == Len(eval_results)
           passed == CountPassed(eval_results)
       IN  new_run' = [new_run EXCEPT
                          !.status = "Succeeded",
                          !.pass_rate = pass_rate_of(passed, total),
                          !.total_records = total,
                          !.results = [i \in 1..total |-> SerializeRow(eval_results[i])]]
    /\ db_runs' = save_run(db_runs, new_run')
    /\ pc' = "done"
    /\ UNCHANGED <<content, selected_evaluators, records, endpoint, evaluators, results,
                   i_run, invoked, final_results, i_eval, eval_calls, fault, envs, clients,
                   suites, i_suite, run_id>>

NoRun == [id |-> "", status |-> "Pending", pass_rate |-> 0, total_records |-> 0,
          results |-> <<>>, evaluator_ids |-> <<>>]

Init ==
    /\ content \in Datasets
    /\ selected_evaluators \in Selections
    /\ pc = "start"
    /\ new_run = NoRun
    /\ db_runs = <<>>
    /\ records = <<>>
    /\ endpoint = None
    /\ evaluators = <<>>
    /\ results = <<>>
    /\ i_run = 0
    /\ invoked = <<>>
    /\ final_results = <<>>
    /\ i_eval = 0
    /\ eval_calls = <<>>
    /\ fault = None
    /\ envs = <<EnvConfigOf(DefaultEnv), EnvConfigOf(DefaultEnv)>>
    /\ clients = <<None, None>>
    /\ suites = <<>>
    /\ i_suite = 0
    /\ run_id = RunId

Next ==
    \/ StartRun
    \/ LoadData
    \/ Setup
    \/ InvokeAgent
    \/ RunDatasetReturn
    \/ EvaluateRecord
    \/ Finish

Spec == Init /\ [][Next]_vars

\* run_evaluation_logic is one synchronous call: whenever a step of it can be taken,
\* it is taken.
\* The fair specification runs datasets of at most MaxFairRecords records.
InitFair == Init /\ ContentSize(content) <= MaxFairRecords

SpecFair == InitFair /\ [][Next]_vars /\ WF_vars(Next)

(***************************************************************************)
(* Endpoint resolution on its own: two environment descriptors, one client *)
(* built from each.                                                        *)
(***************************************************************************)
EnvConfigs ==
    {AuroraEnvConfig(e, v, a, d, u) :
        e \in {Str("aurora-test-001"), Str("aurora-test-002")},
        v \in {Str("10.0.38"), Str("11")},
        a \in {Str("finance-advisor-bot"), Str("hr-bot")},
        d \in {None, Str("staging")},
        u \in {None, Str(""), Str("http://mock")}}

\* AuroraAgentClient(config) for descriptor k.
ClientInit(k) ==
    /\ pc = "idle"
    /\ clients[k] = None
    /\ clients' = [clients EXCEPT ![k] = ClientEndpoint(envs[k])]
    /\ UNCHANGED <<pipeVars, envs>>

InitEnv ==
    /\ envs \in [1..2 -> EnvConfigs]
    /\ clients = <<None, None>>
    /\ suites = <<>>
    /\ i_suite = 0
    /\ run_id = RunId
    /\ content = PyList(<<>>)
    /\ selected_evaluators = {}
    /\ pc = "idle"
    /\ new_run = NoRun
    /\ db_runs = <<>>
    /\ records = <<>>
    /\ endpoint = None
    /\ evaluators = <<>>
    /\ results = <<>>
    /\ i_run = 0
    /\ invoked = <<>>
    /\ final_results = <<>>
    /\ i_eval = 0
    /\ eval_calls = <<>>
    /\ fault = None

NextEnv == \E k \in 1..2 : ClientInit(k)

SpecEnv == InitEnv /\ [][NextEnv]_vars

(***************************************************************************)
(* The engine on its own: EvaluationEngine(suite).evaluate_run(results)    *)
(* for suites of local-function and human-placeholder evaluators and two   *)
(* successful executions, followed by the statistics of the run.           *)
(***************************************************************************)
MaxSuite == 2

\* Evaluator configurations a suite is drawn from; pass_threshold=1.0 is Num(100).
EngineConfigs ==
    { EvaluatorConfig("exact_match", "Automated - Statistical", "local-function",
                      "exact_match", Num(100), EmptyDict),
      EvaluatorConfig("f1_score", "Automated - Statistical", "local-function",
                      "f1_score", Num(75), EmptyDict),
      EvaluatorConfig("keyword_check", "Automated - Rule-based", "local-function",
                      "keyword_check", Num(100), KwDict(<<Str("FIVE")>>)),
      EvaluatorConfig("json_validity", "Automated - Rule-based", "local-function",
                      "json_validity", Num(100), EmptyDict),
      EvaluatorConfig("exact_match_lenient", "Automated - Statistical", "local-function",
                      "exact_match", None, EmptyDict),
      EvaluatorConfig("bleu", "Automated - Statistical", "local-function",
                      "bleu", Num(0), EmptyDict),
      EvaluatorConfig("Human Review", "Human Evaluation", "human-placeholder",
                      "expert_review", None, EmptyDict),
      EvaluatorConfig("Human Audit", "Human Evaluation", "human-placeholder",
                      "audit", Num(50), KwDict(<<Str("FIVE")>>)) }

\* EvaluationSuiteConfig.evaluators: one to MaxSuite configurations, in order.
Suites == UNION {[1..n -> EngineConfigs] : n \in 1..MaxSuite}

\* Successful executions of one record: the expected value is an object with an
\* answer or a bare string, the agent's output is a string.
Executions ==
    { ExecutionResult(EvalRecord(QDict("2+2?"), expected, None), actual, None) :
        expected \in {ADict(Str("4")), Str("4")},
        actual \in {Str("4"), Str(" 4"), Str("five")} }

InitEngine ==
    /\ \E suite \in Suites : evaluators = EngineInit(suite).val
    /\ \E a \in Executions, b \in Executions : results = <<a, b>>
    /\ pc = "evaluate"
    /\ new_run = RunRecord(RunId, "Running", <<>>)
    /\ db_runs = <<RunRecord(RunId, "Running", <<>>)>>
    /\ content = PyList(<<>>)
    /\ selected_evaluators = {}
    /\ records = [i \in 1..2 |-> results[i].record]
    /\ endpoint = ClientEndpoint(EnvConfigOf(DefaultEnv))
    /\ i_run = 2
    /\ invoked = [i \in 1..2 |-> results[i].record.input]
    /\ final_results = <<>>
    /\ i_eval = 0
    /\ eval_calls = <<>>
    /\ fault = None
    /\ envs = <<EnvConfigOf(DefaultEnv), EnvConfigOf(DefaultEnv)>>
    /\ clients = <<None, None>>
    /\ suites = <<>>
    /\ i_suite = 0
    /\ run_id = RunId

NextEngine ==
    \/ EvaluateRecord
    \/ Finish

SpecEngine == InitEngine /\ [][NextEngine]_vars

(***************************************************************************)
(* app.py: new_run_dialog, the loop over the selected test suites.         *)
(***************************************************************************)
MaxRuns == 2

\* A stored dataset, as all_datasets.get(suite.dataset_id) returns it.
DatasetRecord(c) == [t |-> "dataset", content |-> c]

\* A selected test suite with its references resolved: the dataset and the environment
\* (None when the id is no longer in the store) and the names of its evaluators.
TestSuite(dataset, env, suite_eval_names) ==
    [dataset |-> dataset, env |-> env, suite_eval_names |-> suite_eval_names]

SuiteChoices ==
    { TestSuite(DatasetRecord(PyList(<<RawRecord(1)>>)), DefaultEnv, {"Exact Match"}),
      TestSuite(DatasetRecord(PyList(<<RawRecord(1)>>)), DefaultEnv, {"Keyword"}),
      TestSuite(DatasetRecord(PyList(<<RawRecord(1)>>)), DefaultEnv, {"Legacy"}),
      TestSuite(None, DefaultEnv, {"Exact Match"}) }

\* `if dataset and env:`; a stored record is an object, which is true.
Resolves(suite) == suite.dataset # None /\ suite.env # None

\* An id that is handed out again for every run.
FreshId_fixed(n) == "run-1"

\* str(uuid.uuid4()): the n-th id drawn, different from every id drawn before.
FreshId(n) == "run-" \o ToString(n)

\* One iteration of the loop of new_run_dialog, up to the call of run_evaluation_logic:
\* a suite that resolves starts a run of its own, with a fresh id and fresh locals;
\* one that does not is skipped.
NextSuite ==
    /\ pc \in {"idle", "done", "failed"}
    /\ i_suite < Len(suites)
    /\ i_suite' = i_suite + 1
    /\ LET suite == suites[i_suite + 1]
       IN  IF Resolves(suite)
           THEN /\ run_id' = FreshId(Len(db_runs) + 1)
                /\ content' = suite.dataset.content
                /\ selected_evaluators' = suite.suite_eval_names
                /\ pc' = "start"
                /\ new_run' = NoRun
                /\ records' = <<>>
                /\ endpoint' = None
                /\ evaluators' = <<>>
                /\ results' = <<>>
                /\ i_run' = 0
                /\ invoked' = <<>>
                /\ final_results' = <<>>
                /\ i_eval' = 0
                /\ eval_calls' = <<>>
                /\ fault' = None
           ELSE UNCHANGED <<run_id, content, selected_evaluators, pc, new_run, records,
                            endpoint, evaluators, results, i_run, invoked, final_results,
                            i_eval, eval_calls, fault>>
    /\ UNCHANGED <<db_runs, envs, clients, suites>>

\* The loop is over: "All runs completed!"
AllRunsCompleted ==
    /\ pc \in {"idle", "done", "failed"}
    /\ i_suite = Len(suites)
    /\ pc' = "closed"
    /\ UNCHANGED <<content, selected_evaluators, new_run, db_runs, records, endpoint,
                   evaluators, results, i_run, invoked, final_results, i_eval, eval_calls,
                   fault, envs, clients, suites, i_suite, run_id>>

InitDialog ==
    /\ suites \in UNION {[1..n -> SuiteChoices] : n \in 1..MaxRuns}
    /\ i_suite = 0
    /\ run_id = ""
    /\ pc = "idle"
    /\ content = PyList(<<>>)
    /\ selected_evaluators = {}
    /\ new_run = NoRun
    /\ db_runs = <<>>
    /\ records = <<>>
    /\ endpoint = None
    /\ evaluators = <<>>
    /\ results = <<>>
    /\ i_run = 0
    /\ invoked = <<>>
    /\ final_results = <<>>
    /\ i_eval = 0
    /\ eval_calls = <<>>
    /\ fault = None
    /\ envs = <<EnvConfigOf(DefaultEnv), EnvConfigOf(DefaultEnv)>>
    /\ clients = <<None, None>>

NextDialog ==
    \/ NextSuite
    \/ StartRun
    \/ LoadData
    \/ Setup
    \/ InvokeAgent
    \/ RunDatasetReturn
    \/ EvaluateRecord
    \/ Finish
    \/ AllRunsCompleted

SpecDialog == InitDialog /\ [][NextDialog]_vars

(***************************************************************************)
(* runs/store.py: the runs table under any sequence of save_run calls.     *)
(***************************************************************************)
\* The ids of the runs that are saved.
StoreRunIds == {FreshId(n) : n \in 1..(MaxRuns + 1)}

\* The records handed to save_run: any of the ids in any status.
RunsToSave ==
    {RunRecord(id, status, <<>>) : id \in StoreRunIds,
                                   status \in {"Running", "Succeeded", "Failed"}}

\* store.save_run(run); new_run is the record of the call.
SaveRun ==
    /\ \E run \in RunsToSave :
          /\ new_run' = run
          /\ db_runs' = save_run(db_runs, run)
    /\ UNCHANGED <<content, selected_evaluators, pc, records, endpoint, evaluators, results,
                   i_run, invoked, final_results, i_eval, eval_calls, fault, envs, clients,
                   suites, i_suite, run_id>>

InitStore ==
    /\ db_runs = <<>>
    /\ new_run = NoRun
    /\ pc = "idle"
    /\ content = PyList(<<>>)
    /\ selected_evaluators = {}
    /\ records = <<>>
    /\ endpoint = None
    /\ evaluators = <<>>
    /\ results = <<>>
    /\ i_run = 0
    /\ invoked = <<>>
    /\ final_results = <<>>
    /\ i_eval = 0
    /\ eval_calls = <<>>
    /\ fault = None
    /\ envs = <<EnvConfigOf(DefaultEnv), EnvConfigOf(DefaultEnv)>>
    /\ clients = <<None, None>>
    /\ suites = <<>>
    /\ i_suite = 0
    /\ run_id = ""

NextStore == SaveRun

SpecStore == InitStore /\ [][NextStore]_vars

(***************************************************************************)
(* Properties of run_dataset.                                              *)
(***************************************************************************)
\* run_dataset has returned to run_evaluation_logic.
RunDatasetReturned ==
    \/ pc \in {"evaluate", "done"}
    \/ pc = "failed" /\ eval_calls # <<>>

\* The agent invocation behind an execution result raised: only the except branch
\* stores a string in error.
InvocationRaised(exec_res) == exec_res.error # None

\* C1: run_dataset never ends in an exception for a record-level agent failure, and
\* what it returns has one ExecutionResult per record, the i-th holding the i-th
\* record; while it runs it has one result per record consumed.
C1_OneResultPerRecord ==
    /\ pc = "run" =>
          /\ Len(results) = i_run
          /\ i_run <= Len(records)
    /\ RunDatasetReturned =>
          /\ Len(results) = Len(records)
          /\ \A i \in 1..Len(records) : results[i].record = records[i]
    /\ pc = "failed" => (invoked = <<>> \/ eval_calls # <<>>)

\* C1 witness: run_dataset returned three results, the second for a failed invocation.
C1_Witness ==
    /\ RunDatasetReturned
    /\ Len(records) = 3
    /\ Len(results) = 3
    /\ InvocationRaised(results[2])
    /\ ~InvocationRaised(results[1])

\* C2: every ExecutionResult has exactly one of actual_output and error set.
C2_ExactlyOneSet ==
    \A i \in 1..Len(results) :
        (results[i].actual_output # None) # (results[i].error # None)

(***************************************************************************)
(* Properties of evaluate_run.                                             *)
(***************************************************************************)
\* C3: an EvalResult's passed is the conjunction of passed over the metrics stored
\* in its mapping (true for an empty mapping).
C3_PassedIsAllMetrics ==
    \A i \in 1..Len(final_results) :
        final_results[i].passed
            = (\A j \in 1..Len(final_results[i].metrics) :
                   final_results[i].metrics[j].v.passed)

\* C4: once evaluate_run has returned, its EvalResults are, in order, exactly the
\* execution results whose invocation did not raise.
C4_OnePerSuccessfulExecution ==
    pc = "done" =>
        [i \in 1..Len(final_results) |-> final_results[i].execution_result]
            = SelectSeq(results, LAMBDA r : ~InvocationRaised(r))

\* C5: an exception of an evaluator's evaluate() never leaves evaluate_run: the run
\* does not end in the except branch once evaluators have been called.
C5_EvaluatorFaultContained ==
    ~(pc = "failed" /\ eval_calls # <<>>)

\* The suite run_evaluation_logic builds from the store and the selection.
SuiteConfigs == ActiveEvalConfigs(StoreEvaluators, selected_evaluators)

UnknownTypeInSuite ==
    \E i \in 1..Len(SuiteConfigs) : SuiteConfigs[i].type \notin KnownTypes

\* C6: with an evaluator of unrecognized type in the suite the engine is never
\* constructed: the run fails with the factory's error at setup, no agent is invoked
\* and no record is evaluated.
C6_UnknownTypeFailsFast ==
    UnknownTypeInSuite =>
        /\ pc \notin {"run", "evaluate", "done"}
        /\ evaluators = <<>>
        /\ invoked = <<>>
        /\ results = <<>>
        /\ eval_calls = <<>>
        /\ final_results = <<>>
        /\ (pc = "failed" /\ FromDictEach(content).ok)
              => fault = Str("ValueError")

\* C6 witness: a run over a parsed, non-empty dataset failed at engine construction.
C6_Witness ==
    /\ UnknownTypeInSuite
    /\ pc = "failed"
    /\ fault = Str("ValueError")
    /\ Len(records) >= 2
    /\ invoked = <<>>

KnownCustomTargets == {"ProductRecommendation", "ApprovalEvaluator"}

UnknownCustomTargetInSuite ==
    \E i \in 1..Len(SuiteConfigs) :
        /\ SuiteConfigs[i].type = "custom-service"
        /\ SuiteConfigs[i].target \notin KnownCustomTargets

\* C7: with a custom-service evaluator of unknown target in the suite, suite
\* construction fails: no agent is invoked, no record is evaluated, and no metric
\* with score zero is produced for that target.
C7_UnknownTargetFailsFast ==
    UnknownCustomTargetInSuite =>
        /\ pc \notin {"run", "evaluate", "done"}
        /\ invoked = <<>>
        /\ eval_calls = <<>>
        /\ \A i \in 1..Len(final_results) :
              \A j \in 1..Len(final_results[i].metrics) :
                  ~(/\ final_results[i].metrics[j].v.metric.s \notin KnownCustomTargets
                    /\ final_results[i].metrics[j].k = "Remote Scorer"
                    /\ final_results[i].metrics[j].v.score = Num(0))

(***************************************************************************)
(* Properties of the run's statistics.                                     *)
(***************************************************************************)
NumPassed == Cardinality({i \in 1..Len(final_results) : final_results[i].passed})

Abs(x) == IF x < 0 THEN -x ELSE x

\* C8: the saved pass rate (in tenths of a percent) is 0 when no record was
\* evaluated, else the tenth nearest to 100 * passed / total; it lies in 0..100.
C8_PassRate ==
    pc = "done" =>
        LET total == Len(final_results)
            rate == new_run.pass_rate
        IN  /\ new_run.total_records = total
            /\ total = 0 => rate = 0
            /\ total > 0 => 2 * Abs(rate * total - 1000 * NumPassed) <= total
            /\ rate >= 0
            /\ rate <= 1000
            /\ \E i \in 1..Len(db_runs) :
                  /\ db_runs[i].id = new_run.id
                  /\ db_runs[i].pass_rate = rate

\* C8 witness: two of three evaluated records passed, saved as 66.7.
C8_Witness ==
    /\ pc = "done"
    /\ Len(final_results) = 3
    /\ NumPassed = 2
    /\ new_run.pass_rate = 667

\* C8, the empty case: every invocation failed, nothing was evaluated, the rate is 0.
C8_WitnessEmpty ==
    /\ pc = "done"
    /\ Len(results) >= 1
    /\ final_results = <<>>
    /\ new_run.pass_rate = 0

(***************************************************************************)
(* Properties of endpoint resolution.                                      *)
(***************************************************************************)
\* C9 as stated: a client built from a descriptor whose api_endpoint is a string,
\* whatever the string, resolves to that string.
C9_AnyStringOverrides ==
    \A k \in 1..2 :
        (clients[k] # None /\ IsStr(envs[k].api_endpoint))
            => clients[k] = envs[k].api_endpoint

\* C9 amended: a client built from a descriptor whose api_endpoint is a non-empty
\* string resolves to that string, and get_endpoint_url returns it.
C9_NonEmptyOverrides ==
    \A k \in 1..2 :
        (clients[k] # None /\ IsStr(envs[k].api_endpoint) /\ envs[k].api_endpoint.s # "")
            => /\ clients[k] = envs[k].api_endpoint
               /\ get_endpoint_url(envs[k]) = envs[k].api_endpoint

\* C9 witness: a resolved client whose descriptor names an endpoint.
C9_Witness ==
    /\ clients[1] = Str("http://mock")
    /\ envs[1].api_endpoint = Str("http://mock")

NoEndpoint(cfg) == cfg.api_endpoint = None \/ cfg.api_endpoint = Str("")

\* C10: without an api_endpoint the client resolves to
\* https://<gateway>/envs/<env_id>/v<env_version>/agents/<agent_name>, and two
\* descriptors equal in env_id, env_version and agent_name resolve to the same URL.
C10_DerivedEndpoint ==
    /\ \A k \in 1..2 :
          (clients[k] # None /\ NoEndpoint(envs[k]))
              => clients[k] = Str("https://aurora-gateway.microsoft.com/envs/"
                                  \o envs[k].env_id.s \o "/v" \o envs[k].env_version.s
                                  \o "/agents/" \o envs[k].agent_name.s)
    /\ (/\ clients[1] # None
        /\ clients[2] # None
        /\ NoEndpoint(envs[1])
        /\ NoEndpoint(envs[2])
        /\ envs[1].env_id = envs[2].env_id
        /\ envs[1].env_version = envs[2].env_version
        /\ envs[1].agent_name = envs[2].agent_name)
           => clients[1] = clients[2]

\* C10 witness: two resolved clients without endpoint, equal but for the description.
C10_Witness ==
    /\ clients[1] # None
    /\ clients[2] # None
    /\ envs[1].api_endpoint = None
    /\ envs[2].api_endpoint = None
    /\ envs[1].description # envs[2].description
    /\ envs[1].env_id = envs[2].env_id
    /\ envs[1].env_version = envs[2].env_version
    /\ envs[1].agent_name = envs[2].agent_name
    /\ clients[1] = clients[2]

(***************************************************************************)
(* Properties of the run's status.                                         *)
(***************************************************************************)
\* The statuses the runs table holds for the run.
SavedStatuses == {db_runs[i].status : i \in {j \in 1..Len(db_runs) : db_runs[j].id = RunId}}

TerminalStatuses == {"Succeeded", "Failed"}

\* C11: a run whose record was saved as Running eventually has Succeeded or Failed
\* saved for it, whatever step of the try block raises.
C11_EventuallyTerminal ==
    [](("Running" \in SavedStatuses) => <>(SavedStatuses \cap TerminalStatuses # {}))

\* C11 witness: an exception during evaluation, and the run saved as Failed.
C11_Witness ==
    /\ pc = "failed"
    /\ eval_calls # <<>>
    /\ SavedStatuses = {"Failed"}

\* One step of a stored row: its id stays, a terminal status stays, and a status is
\* left only from Running to a terminal one.
RowStep(old, new) ==
    /\ new.id = old.id
    /\ old.status \in TerminalStatuses => new.status = old.status
    /\ new.status # old.status => old.status = "Running" /\ new.status \in TerminalStatuses

\* C12: every stored row and the run object change status only from Running to
\* Succeeded or Failed, a terminal status never changes, and the table never holds two
\* statuses for the run.
C12_StatusOnlyForward ==
    [][ /\ Len(db_runs') >= Len(db_runs)
        /\ \A i \in 1..Len(db_runs) : RowStep(db_runs[i], db_runs'[i])
        /\ new_run.id = RunId => RowStep(new_run, new_run')
        /\ Cardinality(SavedStatuses') <= 1 ]_vars

\* C12 witness: the run completed and the table holds Succeeded for it, and nothing else.
C12_Witness ==
    /\ pc = "done"
    /\ final_results # <<>>
    /\ SavedStatuses = {"Succeeded"}

\* The dataset parses: line 91 builds the records without raising.
DatasetParses == FromDictEach(content).ok

RunEnded == pc \in {"done", "failed"}

\* C13: when the dataset parses and every evaluator of the suite is constructed, the
\* run ends with status Succeeded, in the run object and in the table.
C13_BuiltRunSucceeds ==
    (RunEnded /\ DatasetParses /\ ~UnknownTypeInSuite) =>
        /\ new_run.status = "Succeeded"
        /\ SavedStatuses = {"Succeeded"}

\* C14: a run has status Failed only when the dataset did not parse or the suite could
\* not be constructed; agent errors and evaluator exceptions never make it Failed.
C14_FailedOnlyOnConfigFault ==
    new_run.status = "Failed" => (~DatasetParses \/ UnknownTypeInSuite)

(***************************************************************************)
(* Properties of the metrics mapping and of the persisted rows.            *)
(***************************************************************************)
\* C19: the metrics of every EvalResult are one per evaluator of the suite, keyed by
\* the evaluator's name, in suite order.
C19_OneMetricPerEvaluator ==
    \A i \in 1..Len(final_results) :
        /\ Len(final_results[i].metrics) = Len(evaluators)
        /\ \A j \in 1..Len(final_results[i].metrics) :
              final_results[i].metrics[j].k = evaluators[j].config.name

\* The rows of the table for the run.
SavedRuns == SelectSeq(db_runs, LAMBDA row : row.id = RunId)

\* C20: the rows saved for a Succeeded run are one per EvalResult in order,
\* total_records is their number, and each row carries its EvalResult's passed and,
\* for every metric name of that EvalResult, that metric's score.
C20_RowsFromEvalResults ==
    pc = "done" =>
        /\ Len(SavedRuns) = 1
        /\ LET run == SavedRuns[1]
           IN  /\ run.status = "Succeeded"
               /\ Len(run.results) = Len(final_results)
               /\ run.total_records = Len(run.results)
               /\ \A i \in 1..Len(run.results) :
                     /\ run.results[i].passed = final_results[i].passed
                     /\ Len(run.results[i].metrics) = Len(final_results[i].metrics)
                     /\ \A j \in 1..Len(final_results[i].metrics) :
                           /\ run.results[i].metrics[j].k = final_results[i].metrics[j].k
                           /\ run.results[i].metrics[j].v = final_results[i].metrics[j].v.score

\* C20 witness: a saved Succeeded run with two rows or more, one of them not passed
\* with a metric of score zero.
C20_Witness ==
    /\ pc = "done"
    /\ Len(SavedRuns) = 1
    /\ Len(SavedRuns[1].results) >= 2
    /\ \E i \in 1..Len(SavedRuns[1].results) :
          /\ ~SavedRuns[1].results[i].passed
          /\ \E j \in 1..Len(SavedRuns[1].results[i].metrics) :
                SavedRuns[1].results[i].metrics[j].v = Num(0)

(***************************************************************************)
(* Properties of the evaluators.                                           *)
(***************************************************************************)
\* The suite is one local-function exact_match evaluator with pass_threshold 1.0.
ExactMatchSuite ==
    /\ Len(evaluators) = 1
    /\ evaluators[1].cls = "LocalFunctionEvaluator"
    /\ evaluators[1].config.target = "exact_match"
    /\ evaluators[1].config.pass_threshold = Num(100)

\* Under the exact_match suite, every EvalResult of a record whose expected value is an
\* object with an answer has score 1.0 and passed when Same(str(output), str(answer)),
\* and score 0.0 and not passed otherwise.
ExactMatchScoredBy(Same(_, _)) ==
    ExactMatchSuite =>
        \A i \in 1..Len(final_results) :
            LET res == final_results[i]
                expected == res.execution_result.record.expected
                actual == res.execution_result.actual_output
                metric == res.metrics[1].v
            IN  (IsDict(expected) /\ "answer" \in DOMAIN expected) =>
                    IF Same(PyStr(actual), PyStr(expected.answer))
                    THEN metric.score = Num(100) /\ metric.passed /\ res.passed
                    ELSE metric.score = Num(0) /\ ~metric.passed /\ ~res.passed

NamesOfClass(cls) ==
    {evaluators[k].config.name : k \in {n \in 1..Len(evaluators) : evaluators[n].cls = cls}}

\* C16: two evaluations of the same (input, actual, expected) by the same local-function
\* evaluator give the same metric: score, passed and reasoning.
C16_LocalDeterministic ==
    \A i, j \in 1..Len(final_results) :
        final_results[i].execution_result = final_results[j].execution_result =>
            \A m \in 1..Len(final_results[i].metrics) :
                final_results[i].metrics[m].k \in NamesOfClass("LocalFunctionEvaluator") =>
                    final_results[i].metrics[m].v = final_results[j].metrics[m].v

\* C17: every metric of a human-placeholder evaluator has score None and passed false,
\* whatever the evaluator's pass_threshold and parameters and whatever the record.
C17_HumanPending ==
    \A i \in 1..Len(final_results) :
        \A m \in 1..Len(final_results[i].metrics) :
            final_results[i].metrics[m].k \in NamesOfClass("HumanPlaceholderEvaluator") =>
                /\ final_results[i].metrics[m].v.score = None
                /\ final_results[i].metrics[m].v.passed = FALSE

\* C17 witness: a human-placeholder evaluator with a pass_threshold and parameters
\* returned a pending metric for a record whose other metric passed.
C17_Witness ==
    \E i \in 1..Len(final_results) :
        /\ Len(final_results[i].metrics) = 2
        /\ final_results[i].metrics[1].k = "exact_match"
        /\ final_results[i].metrics[1].v.passed
        /\ final_results[i].metrics[2].k = "Human Audit"
        /\ final_results[i].metrics[2].v.score = None
        /\ ~final_results[i].metrics[2].v.passed

\* The record's non-passing metrics are pending ones (score None), and there is one.
PendingOnly(res) ==
    /\ \E m \in 1..Len(res.metrics) : ~res.metrics[m].v.passed
    /\ \A m \in 1..Len(res.metrics) : ~res.metrics[m].v.passed => res.metrics[m].v.score = None

\* The record has a non-passing metric that carries a score.
GenuinelyFailing(res) ==
    \E m \in 1..Len(res.metrics) : ~res.metrics[m].v.passed /\ res.metrics[m].v.score # None

\* C18: a record whose only non-passing metrics are pending and a record with a
\* genuinely failing metric differ in EvalResult.passed, from which the pass rate is
\* counted.
C18_PendingToldApart ==
    \A i, j \in 1..Len(final_results) :
        (PendingOnly(final_results[i]) /\ GenuinelyFailing(final_results[j])) =>
            final_results[i].passed # final_results[j].passed

(***************************************************************************)
(* Properties of dataset deserialization.                                  *)
(***************************************************************************)
\* The dataset has the shape the contract asks for: a sequence of structured objects.
WellShaped ==
    /\ IsList(content)
    /\ \A i \in 1..Len(content.items) : IsDict(content.items[i])

\* C21: a dataset whose top-level value is no sequence, or with an element that is no
\* structured object, is rejected by load_dataset, and a run over it fails when it
\* builds its records, with no record built.
C21_MalformedRejected ==
    ~WellShaped =>
        /\ ~load_dataset(content).ok
        /\ pc \notin {"start", "load"} => (pc = "failed" /\ records = <<>>)

(***************************************************************************)
(* Properties of the order of the work.                                    *)
(***************************************************************************)
\* The inputs of the first n records, in order.
InputsUpTo(n) == [i \in 1..n |-> records[i].input]

\* C22: the agent is invoked once per record in input order, also after an invocation
\* that raised; the result of an invocation that raised carries the exception's text as
\* its error and no actual_output.
C22_InvokedOncePerRecord ==
    /\ pc = "run" => invoked = InputsUpTo(i_run)
    /\ RunDatasetReturned => invoked = InputsUpTo(Len(records))
    /\ Len(results) = Len(invoked)
    /\ \A i \in 1..Len(results) :
          InvocationRaised(results[i]) =>
              /\ results[i].actual_output = None
              /\ results[i].error \in {Str(m) : m \in AgentErrors}

\* C22 witness: of three records the first and the third invocation raised, the second
\* returned, and all three were invoked.
C22_Witness ==
    /\ RunDatasetReturned
    /\ Len(invoked) = 3
    /\ InvocationRaised(results[1])
    /\ ~InvocationRaised(results[2])
    /\ InvocationRaised(results[3])

\* The rows the table reports for the run.
ReportedRows == IF SavedRuns = <<>> THEN <<>> ELSE SavedRuns[1].results

\* C23: when the run is aborted by a fault after execution results were produced, every
\* result produced so far is still reported: the saved run has a row for its record.
C23_ResultsSurviveAbort ==
    (pc = "failed" /\ results # <<>>) =>
        \A i \in 1..Len(results) :
            \E j \in 1..Len(ReportedRows) :
                ReportedRows[j].input = PyStr(results[i].record.input)

\* evaluate_run has taken up an execution result.
EvaluationBegun == i_eval > 0 \/ eval_calls # <<>>

\* C24 as stated: the evaluator pass for record i comes before the agent is invoked for
\* record i+1, so at most one invoked record is waiting for its pass.
C24_InvokeThenEvaluate == Len(invoked) <= i_eval + 1

\* C24 amended: the work is in two phases, one thing at a time: the agent is invoked
\* for every record, in order, before the first evaluator pass, and the evaluator
\* calls come record by record in order, evaluator by evaluator in suite order.
C24_InvokeAllThenEvaluate ==
    /\ EvaluationBegun => (i_run = Len(records) /\ invoked = InputsUpTo(Len(records)))
    /\ \A a, b \in 1..Len(eval_calls) :
          a < b => \/ eval_calls[a][1] < eval_calls[b][1]
                   \/ /\ eval_calls[a][1] = eval_calls[b][1]
                      /\ eval_calls[a][2] < eval_calls[b][2]

\* C24 witness: three records were invoked, and the evaluator pass of the first one has
\* been done while the others wait.
C24_Witness ==
    /\ pc = "evaluate"
    /\ Len(invoked) = 3
    /\ i_eval = 1
    /\ Len(eval_calls) >= 2

(***************************************************************************)
(* Frame properties.                                                       *)
(***************************************************************************)
\* The execution results evaluate_run has taken up and not skipped, in order.
Evaluated == SelectSeq(SubSeq(results, 1, i_eval), LAMBDA r : ~skips(r))

\* C25: the records stay what parsing made them, the i-th ExecutionResult holds the
\* i-th record, and the EvalResults hold, unmodified and in order, the execution
\* results they were built from.
C25_RecordsUntouched ==
    /\ records # <<>> => records = FromDictEach(content).val
    /\ \A i \in 1..Len(results) : results[i].record = records[i]
    /\ [j \in 1..Len(final_results) |-> final_results[j].execution_result] = Evaluated

\* C25 witness: a finished run over three records, each invoked and evaluated.
C25_Witness ==
    /\ pc = "done"
    /\ Len(records) = 3
    /\ Len(final_results) = 3
    /\ \A i \in 1..3 : final_results[i].execution_result.record = records[i]

(***************************************************************************)
(* Properties of the pass threshold.                                       *)
(***************************************************************************)
\* The score a metric of this configuration needs to pass; no threshold counts as 0.
Bar(config) == IF config.pass_threshold = None THEN 0 ELSE config.pass_threshold.n

\* C26: a local-function metric has passed exactly when its score is at least the
\* evaluator's pass_threshold, an absent one counting as 0; with no threshold or
\* threshold 0 every metric passes, whatever its score.
C26_PassedIffAtLeastThreshold ==
    \A i \in 1..Len(final_results) :
        \A m \in 1..Len(final_results[i].metrics) :
            \A e \in 1..Len(evaluators) :
                (/\ evaluators[e].cls = "LocalFunctionEvaluator"
                 /\ evaluators[e].config.name = final_results[i].metrics[m].k) =>
                    LET metric == final_results[i].metrics[m].v
                    IN  /\ metric.passed = (metric.score.n >= Bar(evaluators[e].config))
                        /\ Bar(evaluators[e].config) = 0 => metric.passed

\* C26 witness: an exact_match mismatch without threshold and an unknown function with
\* threshold 0 both scored 0.0 and passed.
C26_Witness ==
    \E i \in 1..Len(final_results) :
        /\ Len(final_results[i].metrics) = 2
        /\ final_results[i].metrics[1].k = "exact_match_lenient"
        /\ final_results[i].metrics[1].v.score = Num(0)
        /\ final_results[i].metrics[1].v.passed
        /\ final_results[i].metrics[2].k = "bleu"
        /\ final_results[i].metrics[2].v.score = Num(0)
        /\ final_results[i].metrics[2].v.reasoning = "Unknown local function: bleu"
        /\ final_results[i].metrics[2].v.passed

(***************************************************************************)
(* Properties of several runs and of the runs table.                       *)
(***************************************************************************)
\* The suites the loop has taken up that resolved, in selection order.
StartedSuites == SelectSeq(SubSeq(suites, 1, i_suite), Resolves)

\* Every suite taken up that resolved has a row of its own, rows in selection order,
\* each with its suite's evaluators; only the run under way is not terminal, and when
\* the dialog is through every row is.
OwnRunPerSuite ==
    /\ Len(db_runs) = Len(StartedSuites) - (IF pc = "start" THEN 1 ELSE 0)
    /\ \A j, k \in 1..Len(db_runs) : j # k => db_runs[j].id # db_runs[k].id
    /\ \A j \in 1..Len(db_runs) :
          /\ db_runs[j].evaluator_ids
                = SelectedIds(StoreEvaluators, StartedSuites[j].suite_eval_names)
          /\ (j < Len(db_runs) \/ pc = "closed") => db_runs[j].status \in TerminalStatuses
    /\ pc = "closed" => Len(db_runs) = Len(SelectSeq(suites, Resolves))

\* A step changes no row but the one of the run under way.
OtherRowsKept ==
    \A j \in 1..Len(db_runs) :
        db_runs[j].id # run_id' => (j <= Len(db_runs') /\ db_runs'[j] = db_runs[j])

\* C27: each selected suite that resolves gets a run of its own with a fresh id, in
\* selection order, also after a run that ended Failed, and no step of a run changes
\* the saved record of another run.
C27_OwnRunPerSuite == []OwnRunPerSuite /\ [][OtherRowsKept]_vars

\* C27 witness: of two suites the first run ended Failed and the second Succeeded with
\* one row, and the dialog is through.
C27_Witness ==
    /\ pc = "closed"
    /\ Len(db_runs) = 2
    /\ db_runs[1].status = "Failed"
    /\ db_runs[2].status = "Succeeded"
    /\ db_runs[2].total_records = 1

\* The positions of the rows with this id.
RowsOf(db, id) == {j \in 1..Len(db) : db[j].id = id}

\* C28: after a save_run call the table has one row for the saved id, holding the saved
\* values, no id has two rows, and every row of another id is where and what it was.
C28_OneRowPerId ==
    [][ /\ Cardinality(RowsOf(db_runs', new_run'.id)) = 1
        /\ \A j \in RowsOf(db_runs', new_run'.id) : db_runs'[j] = new_run'
        /\ \A id \in StoreRunIds : Cardinality(RowsOf(db_runs', id)) <= 1
        /\ \A j \in 1..Len(db_runs) :
              db_runs[j].id # new_run'.id => db_runs'[j] = db_runs[j]
        /\ Len(db_runs') = Len(db_runs) + (IF RowsOf(db_runs, new_run'.id) = {} THEN 1 ELSE 0)
      ]_vars

\* C28 witness: with three runs stored, the first one, inserted before the others, has
\* been saved again as Succeeded, next to a Running and a Failed row.
C28_Witness ==
    /\ Len(db_runs) = 3
    /\ new_run = db_runs[1]
    /\ db_runs[1].status = "Succeeded"
    /\ db_runs[2].status = "Running"
    /\ db_runs[3].status = "Failed"

====
